---- MODULE Spec2Model ----
(***************************************************************************)
(* Restoration of a trial Result from a trial directory                    *)
(* (python/ray/air/result.py): Result.from_path and                        *)
(* Result.get_best_checkpoint, run against a small trial directory that    *)
(* holds a primary log (result.json), a fallback log (progress.csv), an    *)
(* error pickle and checkpoint folders.                                    *)
(*                                                                         *)
(* File and directory names, and the text of CSV cells, are Python         *)
(* strings: they are modelled as tuples of one-character strings so that   *)
(* str.startswith, sorted() and the CSV number inference are computed.     *)
(* Dictionary keys are only ever compared for equality and are TLA+        *)
(* strings.                                                                *)
(***************************************************************************)
EXTENDS Integers, Sequences, FiniteSets, TLC

VARIABLES
    fs,          \* the trial directory on the storage filesystem
    restored,    \* the latest Result.from_path call: the folder it read, its outcome
    kept,        \* the call whose Result the caller held when result.json was deleted
    sel          \* latest get_best_checkpoint call on `restored` and its outcome

vars == <<fs, restored, kept, sel>>

-----------------------------------------------------------------------------
(* Bounds *)

\* longest metrics log (number of reported results)
MaxRows == 2

\* largest value reported under metric_a
MaxMetric == 2

-----------------------------------------------------------------------------
(* Python strings *)

\* code points of the characters that occur in the names of the model
Ord(c) ==
    CASE c = "." -> 46
      [] c = "0" -> 48 [] c = "1" -> 49 [] c = "2" -> 50 [] c = "3" -> 51
      [] c = "4" -> 52 [] c = "5" -> 53 [] c = "6" -> 54 [] c = "7" -> 55
      [] c = "8" -> 56 [] c = "9" -> 57
      [] c = "_" -> 95
      [] c = "c" -> 99 [] c = "e" -> 101 [] c = "g" -> 103 [] c = "h" -> 104
      [] c = "i" -> 105 [] c = "j" -> 106 [] c = "k" -> 107 [] c = "l" -> 108
      [] c = "m" -> 109 [] c = "n" -> 110 [] c = "o" -> 111 [] c = "p" -> 112
      [] c = "r" -> 114 [] c = "s" -> 115 [] c = "t" -> 116 [] c = "u" -> 117
      [] c = "v" -> 118

Digits == <<"0", "1", "2", "3", "4", "5", "6", "7", "8", "9">>

\* str < str: lexicographic by code point, a proper prefix first
RECURSIVE StrLess(_, _)
StrLess(a, b) ==
    IF b = <<>> THEN FALSE
    ELSE IF a = <<>> THEN TRUE
    ELSE IF Ord(Head(a)) # Ord(Head(b)) THEN Ord(Head(a)) < Ord(Head(b))
    ELSE StrLess(Tail(a), Tail(b))

\* str.startswith(prefix)
startswith(s, prefix) ==
    /\ Len(s) >= Len(prefix)
    /\ SubSeq(s, 1, Len(prefix)) = prefix

\* sorted(names): the names of a set in ascending str order
RECURSIVE sorted(_)
sorted(S) ==
    IF S = {} THEN <<>>
    ELSE LET least == CHOOSE a \in S : \A b \in S \ {a} : StrLess(a, b)
         IN  <<least>> \o sorted(S \ {least})

\* the prefix "checkpoint_" tested by from_path
CheckpointPrefix == <<"c", "h", "e", "c", "k", "p", "o", "i", "n", "t", "_">>

\* ray.train.constants.CHECKPOINT_DIR_NAME, the correlation key of a result row
CHECKPOINT_DIR_NAME == "checkpoint_dir_name"

\* ray.air.constants: EXPR_RESULT_FILE, EXPR_PROGRESS_FILE, EXPR_ERROR_PICKLE_FILE
EXPR_RESULT_FILE == <<"r", "e", "s", "u", "l", "t", ".", "j", "s", "o", "n">>
EXPR_PROGRESS_FILE == <<"p", "r", "o", "g", "r", "e", "s", "s", ".", "c", "s", "v">>
EXPR_ERROR_PICKLE_FILE == <<"e", "r", "r", "o", "r", ".", "p", "k", "l">>

-----------------------------------------------------------------------------
(* Values of a metrics row *)

\* a number, a str, and the missing value (float nan) pandas fills in
Num(n) == [t |-> "num", n |-> n, s |-> <<>>]
Str(s) == [t |-> "str", n |-> 0, s |-> s]
NaN == [t |-> "nan", n |-> 0, s |-> <<>>]

\* Python's a > b and a < b on row values; every comparison with nan is False
PyGt(a, b) ==
    CASE a.t = "num" /\ b.t = "num" -> a.n > b.n
      [] a.t = "str" /\ b.t = "str" -> StrLess(b.s, a.s)
      [] OTHER -> FALSE

PyLt(a, b) == PyGt(b, a)

\* the union of the key sets of a list of dicts
KeysOf(dicts) == UNION {DOMAIN dicts[i] : i \in 1..Len(dicts)}

-----------------------------------------------------------------------------
(* pandas *)

\* a DataFrame: its column labels and its rows, each row a dict over the columns
DataFrame(columns, rows) == [columns |-> columns, rows |-> rows]

\* DataFrame.empty: no rows or no columns
empty(df) == Len(df.rows) = 0 \/ df.columns = {}

\* pd.json_normalize(json_list, sep="/"): one row per record, one column per key
\* of any record, nan where a record has no such key
json_normalize(json_list) ==
    LET columns == KeysOf(json_list)
    IN  DataFrame(columns,
            [i \in 1..Len(json_list) |->
                [k \in columns |->
                    IF k \in DOMAIN json_list[i] THEN json_list[i][k] ELSE NaN]])

\* the text of a CSV cell is an unsigned decimal number
IsNumber(text) ==
    /\ text # <<>>
    /\ \A i \in 1..Len(text) : \E d \in 1..Len(Digits) : Digits[d] = text[i]

DigitValue(c) == (CHOOSE d \in 1..Len(Digits) : Digits[d] = c) - 1

RECURSIVE ParseNumber(_)
ParseNumber(text) ==
    IF text = <<>> THEN 0
    ELSE 10 * ParseNumber(SubSeq(text, 1, Len(text) - 1)) + DigitValue(text[Len(text)])

\* the bug of taking the first data row for a second header line
read_csv_skip_row(table) ==
    LET header == table.header
        columns == {header[j] : j \in 1..Len(header)}
        data == IF table.rows = <<>> THEN <<>> ELSE Tail(table.rows)
        Pos(k) == CHOOSE j \in 1..Len(header) : header[j] = k
        Numeric(k) ==
            \A i \in 1..Len(data) : data[i][Pos(k)] = <<>> \/ IsNumber(data[i][Pos(k)])
        Cell(i, k) ==
            LET text == data[i][Pos(k)]
            IN  IF text = <<>> THEN NaN
                ELSE IF Numeric(k) THEN Num(ParseNumber(text))
                ELSE Str(text)
    IN  DataFrame(columns, [i \in 1..Len(data) |-> [k \in columns |-> Cell(i, k)]])

\* pd.read_csv: the header row names the columns; an empty cell is nan; a column
\* whose filled cells are all numbers is numeric, any other column keeps its text
read_csv(table) ==
    LET header == table.header
        columns == {header[j] : j \in 1..Len(header)}
        Pos(k) == CHOOSE j \in 1..Len(header) : header[j] = k
        Numeric(k) ==
            \A i \in 1..Len(table.rows) :
                table.rows[i][Pos(k)] = <<>> \/ IsNumber(table.rows[i][Pos(k)])
        Cell(i, k) ==
            LET text == table.rows[i][Pos(k)]
            IN  IF text = <<>> THEN NaN
                ELSE IF Numeric(k) THEN Num(ParseNumber(text))
                ELSE Str(text)
    IN  DataFrame(columns,
            [i \in 1..Len(table.rows) |-> [k \in columns |-> Cell(i, k)]])

-----------------------------------------------------------------------------
(* The storage filesystem, as seen at the trial directory *)

\* _exists_at_fs_path(fs, os.path.join(fs_path, name))
_exists_at_fs_path(f, name) == f.exists /\ name \in f.files \cup f.dirs

\* fs.get_file_info(pyarrow.fs.FileSelector(fs_path)): the immediate entries
get_file_info(f) ==
    {[base_name |-> d, type |-> "Directory"] : d \in f.dirs}
        \cup {[base_name |-> n, type |-> "File"] : n \in f.files}

\* one storage access of a call: the operation and the entry it names
Access(op, name) == [op |-> op, name |-> name]

\* the bug of handing back the file's content without unpickling it
cloudpickle_load_raw(blob) == blob

\* ray.cloudpickle.load(f): the object the error file was pickled from
cloudpickle_load(blob) == blob.pickled

-----------------------------------------------------------------------------
(* Result.from_path *)

\* a call that raised: no Result is returned
Raise(exc, msg, ops) == [raised |-> exc, msg |-> msg, ops |-> ops, result |-> <<>>]

\* a call that returned a Result
Return(result, ops) == [raised |-> "none", msg |-> "", ops |-> ops, result |-> <<result>>]

\* Optional values of the Result fields
None == [none |-> TRUE, value |-> <<>>]
Some(v) == [none |-> FALSE, value |-> v]

\* the rows of metrics_df whose checkpoint_dir_name equals checkpoint_dir
metrics_corresponding_to_checkpoint(metrics_df, checkpoint_dir) ==
    SelectSeq(metrics_df.rows, LAMBDA row : row[CHECKPOINT_DIR_NAME] = Str(checkpoint_dir))

\* the bug of pairing a checkpoint with its first report instead of its last
checkpoint_metrics_first(metrics_df, checkpoint_dir) ==
    LET rows == metrics_corresponding_to_checkpoint(metrics_df, checkpoint_dir)
    IN  IF Len(rows) = 0 THEN <<>> ELSE rows[1]

\* {} if no row matches, else the last matching row as a dict
checkpoint_metrics(metrics_df, checkpoint_dir) ==
    LET rows == metrics_corresponding_to_checkpoint(metrics_df, checkpoint_dir)
    IN  IF Len(rows) = 0 THEN <<>> ELSE rows[Len(rows)]

\* the bug of not testing the entry type: a plain file named like a checkpoint
\* counts as one
checkpoint_dirs_any_type(f) ==
    sorted({item.base_name : item \in
        {i \in get_file_info(f) : startswith(i.base_name, CheckpointPrefix)}})

\* the names of the directories of the trial folder that start with "checkpoint_"
checkpoint_dirs(f) ==
    sorted({item.base_name : item \in
        {i \in get_file_info(f) :
            i.type = "Directory" /\ startswith(i.base_name, CheckpointPrefix)}})

\* the part of from_path after metrics_df is read: checkpoints, error, Result
restore_from(f, metrics_df, ops) ==
    LET latest_metrics ==
            IF ~empty(metrics_df) THEN metrics_df.rows[Len(metrics_df.rows)] ELSE <<>>
        dirs == checkpoint_dirs(f)
        ops2 == Append(ops, Access("get_file_info", <<>>))
        best_checkpoints ==
            IF dirs # <<>>
            THEN Some([i \in 1..Len(dirs) |->
                        [checkpoint |-> dirs[i],
                         metrics |-> checkpoint_metrics(metrics_df, dirs[i])]])
            ELSE None
        latest_checkpoint == IF dirs # <<>> THEN Some(dirs[Len(dirs)]) ELSE None
        has_error == _exists_at_fs_path(f, EXPR_ERROR_PICKLE_FILE)
        ops3 == Append(ops2, Access("exists", EXPR_ERROR_PICKLE_FILE))
        error == IF has_error THEN Some(cloudpickle_load(f.pkl)) ELSE None
        ops4 == IF has_error
                THEN Append(ops3, Access("open_input_stream", EXPR_ERROR_PICKLE_FILE))
                ELSE ops3
    IN  IF dirs # <<>> /\ CHECKPOINT_DIR_NAME \notin metrics_df.columns
        THEN Raise("KeyError", CHECKPOINT_DIR_NAME, ops2)
        ELSE Return([metrics |-> latest_metrics,
                     checkpoint |-> latest_checkpoint,
                     error |-> error,
                     metrics_dataframe |-> metrics_df,
                     best_checkpoints |-> best_checkpoints], ops4)

\* the bug of not checking the trial folder at all
_validate_trial_dir_skipped(f) == TRUE

\* Result._validate_trial_dir: the trial folder exists
_validate_trial_dir(f) == f.exists

\* Result.from_path(path) on the filesystem f
from_path(f) ==
    LET ops1 == <<Access("exists", <<>>)>>
        ops2 == Append(ops1, Access("exists", EXPR_RESULT_FILE))
        ops3 == Append(ops2, Access("exists", EXPR_PROGRESS_FILE))
    IN  IF ~_validate_trial_dir(f)
        THEN Raise("RuntimeError", "Trial folder doesn't exist!", ops1)
        ELSE IF _exists_at_fs_path(f, EXPR_RESULT_FILE)
        THEN restore_from(f, json_normalize(f.json),
                 Append(ops2, Access("open_input_stream", EXPR_RESULT_FILE)))
        ELSE IF _exists_at_fs_path(f, EXPR_PROGRESS_FILE)
        THEN restore_from(f, read_csv(f.csv),
                 Append(ops3, Access("open_input_stream", EXPR_PROGRESS_FILE)))
        ELSE Raise("RuntimeError",
                 "Neither result.json nor progress.csv exists in the trial folder!", ops3)

-----------------------------------------------------------------------------
(* Result.get_best_checkpoint *)

\* max(items, key=...) / min(items, key=...): the first item is kept until a later
\* one compares strictly greater (max) or strictly less (min)
RECURSIVE PyExtreme(_, _, _)
PyExtreme(items, metric, mode) ==
    IF Len(items) = 1 THEN items[1]
    ELSE LET best == PyExtreme(SubSeq(items, 1, Len(items) - 1), metric, mode)
             item == items[Len(items)]
         IN  IF mode = "max"
             THEN IF PyGt(item.metrics[metric], best.metrics[metric]) THEN item ELSE best
             ELSE IF PyLt(item.metrics[metric], best.metrics[metric]) THEN item ELSE best

\* the checkpoints whose metrics dict has the key
valid_checkpoints(result, metric) ==
    SelectSeq(result.best_checkpoints.value, LAMBDA ckpt_info : metric \in DOMAIN ckpt_info.metrics)

\* a call that raised, and a call that returned a checkpoint
Failed(exc, msg) == [raised |-> exc, msg |-> msg, checkpoint |-> <<>>]
Best(checkpoint) == [raised |-> "none", msg |-> "", checkpoint |-> <<checkpoint>>]

\* the bug of looking the metric up before the mode is checked
get_best_checkpoint_metric_first(result, metric, mode) ==
    IF result.best_checkpoints.none \/ result.best_checkpoints.value = <<>>
    THEN Failed("RuntimeError", "No checkpoint exists in the trial directory!")
    ELSE IF valid_checkpoints(result, metric) = <<>>
    THEN Failed("RuntimeError", "Invalid metric name")
    ELSE IF mode \notin {"max", "min"}
    THEN Failed("ValueError", "Unsupported mode")
    ELSE Best(PyExtreme(valid_checkpoints(result, metric), metric, mode).checkpoint)

\* the bug of returning None, as the docstring has it, when no checkpoint has the
\* metric
get_best_checkpoint_or_none(result, metric, mode) ==
    IF result.best_checkpoints.none \/ result.best_checkpoints.value = <<>>
    THEN Failed("RuntimeError", "No checkpoint exists in the trial directory!")
    ELSE IF mode \notin {"max", "min"}
    THEN Failed("ValueError", "Unsupported mode")
    ELSE IF valid_checkpoints(result, metric) = <<>>
    THEN Failed("none", "")
    ELSE Best(PyExtreme(valid_checkpoints(result, metric), metric, mode).checkpoint)

\* result.get_best_checkpoint(metric, mode)
get_best_checkpoint(result, metric, mode) ==
    IF result.best_checkpoints.none \/ result.best_checkpoints.value = <<>>
    THEN Failed("RuntimeError", "No checkpoint exists in the trial directory!")
    ELSE IF mode \notin {"max", "min"}
    THEN Failed("ValueError", "Unsupported mode")
    ELSE IF valid_checkpoints(result, metric) = <<>>
    THEN Failed("RuntimeError", "Invalid metric name")
    ELSE Best(PyExtreme(valid_checkpoints(result, metric), metric, mode).checkpoint)

-----------------------------------------------------------------------------
(* Trial directories the trainer can leave behind *)

\* checkpoint_<index>, the index zero-padded to six digits
\* (checkpoint_000002 .. checkpoint_000004 in test_result_restore)
CheckpointName(index) == CheckpointPrefix \o <<"0", "0", "0", "0", "0", Digits[index + 1]>>

\* checkpoint folders that reports can refer to
CheckpointNames == {CheckpointName(0), CheckpointName(1)}

\* other entries of a trial folder: a folder that starts with the prefix but has
\* no index, a folder without the prefix, and a plain file named like a checkpoint
TmpDir == CheckpointPrefix \o <<"t", "m", "p">>
LogsDir == <<"l", "o", "g", "s">>
StrayFile == CheckpointName(2)

\* the values reported under metric_a
MetricValues == 1..MaxMetric

\* the result of iteration i: training_iteration always, metric_a and the
\* checkpoint the report was saved with only when given (<<>> when not)
Report(i, ckpt, a) ==
    [k \in {"training_iteration"}
            \cup (IF ckpt # <<>> THEN {CHECKPOINT_DIR_NAME} ELSE {})
            \cup (IF a # <<>> THEN {"metric_a"} ELSE {}) |->
        CASE k = "training_iteration" -> Num(i)
          [] k = CHECKPOINT_DIR_NAME -> Str(ckpt[1])
          [] OTHER -> Num(a[1])]

\* what one report carries: a checkpoint, a value of metric_a, or both
ReportOptions ==
    {o \in ({<<>>} \cup {<<c>> : c \in CheckpointNames})
                \X ({<<>>} \cup {<<v>> : v \in MetricValues}) :
        o[1] # <<>> \/ o[2] # <<>>}

\* the contents of result.json: one record per line, in report order
JsonLogs ==
    UNION {
        {[i \in 1..n |-> Report(i, o[i][1], o[i][2])] : o \in [1..n -> ReportOptions]}
        : n \in 0..MaxRows}

\* the log of a run that saved both checkpoints, as in test_result_restore:
\* metric_a grows with the iteration
ReferenceLog ==
    <<Report(1, <<CheckpointName(0)>>, <<1>>), Report(2, <<CheckpointName(1)>>, <<2>>)>>

\* str(n) for n >= 0
RECURSIVE NumberText(_)
NumberText(n) ==
    IF n < 10 THEN <<Digits[n + 1]>>
    ELSE NumberText(n \div 10) \o <<Digits[(n % 10) + 1]>>

\* the text a value is written as in a CSV cell
CellText(v) == IF v.t = "num" THEN NumberText(v.n) ELSE v.s

KeyOrder == <<"training_iteration", "metric_a", CHECKPOINT_DIR_NAME>>

\* progress.csv with the rows of `lines`: a header of the keys in use, then one
\* row per record with an empty cell for a key the record lacks
CsvOf(lines) ==
    LET header == SelectSeq(KeyOrder, LAMBDA k : k \in KeysOf(lines))
    IN  [header |-> header,
         rows |-> [i \in 1..Len(lines) |->
                    [j \in 1..Len(header) |->
                        IF header[j] \in DOMAIN lines[i]
                        THEN CellText(lines[i][header[j]]) ELSE <<>>]]]

\* progress.csv one flush behind result.json: the last row is not yet written
StaleCsvOf(lines) ==
    LET full == CsvOf(lines)
    IN  [header |-> full.header, rows |-> SubSeq(full.rows, 1, Len(full.rows) - 1)]

NoCsv == [header |-> <<>>, rows |-> <<>>]
NoPickle == [pickled |-> [type |-> "none"]]
ErrorPickle == [pickled |-> [type |-> "RuntimeError"]]

NoFolder ==
    [exists |-> FALSE, dirs |-> {}, files |-> {},
     json |-> <<>>, csv |-> NoCsv, pkl |-> NoPickle]

\* a trial folder with the given checkpoint folders, other entries, logs and error
Folder(ckpts, extras, hasJson, csv, hasError, lines) ==
    [exists |-> TRUE,
     dirs |-> ckpts \cup (IF extras THEN {TmpDir, LogsDir} ELSE {}),
     files |-> (IF extras THEN {StrayFile} ELSE {})
                 \cup (IF hasJson THEN {EXPR_RESULT_FILE} ELSE {})
                 \cup (IF csv # "none" THEN {EXPR_PROGRESS_FILE} ELSE {})
                 \cup (IF hasError THEN {EXPR_ERROR_PICKLE_FILE} ELSE {}),
     json |-> IF hasJson THEN lines ELSE <<>>,
     csv |-> CASE csv = "none" -> NoCsv
               [] csv = "same" -> CsvOf(lines)
               [] OTHER -> StaleCsvOf(lines),
     pkl |-> IF hasError THEN ErrorPickle ELSE NoPickle]

\* which logs a folder holds: result.json or not, and progress.csv absent, in step
\* with result.json, or one row behind it
LogVariants ==
    {<<TRUE, "none">>, <<TRUE, "same">>, <<TRUE, "stale">>, <<FALSE, "none">>, <<FALSE, "same">>}

\* the trial folders of the model: every log, written to both files, over a clean
\* folder, and every layout of the folder (which logs, other entries, error
\* pickle) around the reference log
TrialFolders ==
    {NoFolder}
    \cup {Folder(ckpts, FALSE, TRUE, "same", FALSE, lines) :
            ckpts \in SUBSET CheckpointNames, lines \in JsonLogs}
    \cup {Folder(ckpts, extras, v[1], v[2], hasError, ReferenceLog) :
            ckpts \in SUBSET CheckpointNames, extras \in BOOLEAN,
            hasError \in BOOLEAN, v \in LogVariants}

-----------------------------------------------------------------------------
(* The caller: restore, select, delete result.json and restore again *)

\* a from_path call: the folder as it was read, and what the call did
Call(f) == [folder |-> f, out |-> from_path(f)]

NotCalled ==
    [folder |-> NoFolder,
     out |-> [raised |-> "not called", msg |-> "", ops |-> <<>>, result |-> <<>>]]
NoSelection == [metric |-> "", mode |-> "", out |-> Failed("not called", "")]

Metrics == {"metric_a", "invalid_metric"}
Modes == {"max", "min", "avg"}

Init ==
    /\ fs \in TrialFolders
    /\ restored = NotCalled
    /\ kept = NotCalled
    /\ sel = NoSelection

\* result = Result.from_path(trial_dir)
Restore ==
    /\ restored' = Call(fs)
    /\ sel' = NoSelection
    /\ UNCHANGED <<fs, kept>>

\* result.get_best_checkpoint(metric, mode) on the restored Result
Select(metric, mode) ==
    /\ restored.out.result # <<>>
    /\ sel' = [metric |-> metric, mode |-> mode,
               out |-> get_best_checkpoint(restored.out.result[1], metric, mode)]
    /\ UNCHANGED <<fs, restored, kept>>

\* fs.delete_file(result.json) after a restore; the caller still holds the Result
\* restored so far
DeletePrimary ==
    /\ restored # NotCalled
    /\ _exists_at_fs_path(fs, EXPR_RESULT_FILE)
    /\ fs' = [fs EXCEPT !.files = @ \ {EXPR_RESULT_FILE}, !.json = <<>>]
    /\ kept' = restored
    /\ sel' = NoSelection
    /\ UNCHANGED restored

Next ==
    \/ Restore
    \/ \E metric \in Metrics, mode \in Modes : Select(metric, mode)
    \/ DeletePrimary

Spec == Init /\ [][Next]_vars

-----------------------------------------------------------------------------
(* Vocabulary of the properties *)

\* the latest from_path call returned a Result
Returned(call) == call.out.result # <<>>
ResultOf(call) == call.out.result[1]

\* the folder holds a metrics log, primary or fallback
HasLog(f) == EXPR_RESULT_FILE \in f.files \/ EXPR_PROGRESS_FILE \in f.files

\* the metrics history of the folder: the rows of the one log that is consulted
History(f) == IF EXPR_RESULT_FILE \in f.files THEN json_normalize(f.json) ELSE read_csv(f.csv)

\* positions of the snapshots of the history that carry the name under the correlation key
Matching(f, name) ==
    {i \in 1..Len(History(f).rows) :
        /\ CHECKPOINT_DIR_NAME \in History(f).columns
        /\ History(f).rows[i][CHECKPOINT_DIR_NAME] = Str(name)}

\* the checkpoint folders of the trial folder
CheckpointFolders(f) == {d \in f.dirs : startswith(d, CheckpointPrefix)}

\* the checkpoint records of a Result; no list (None) counts as the empty sequence
Records(result) ==
    IF result.best_checkpoints.none THEN <<>> ELSE result.best_checkpoints.value

\* the sequence is in strictly ascending name order
Ascending(records) ==
    \A i, j \in 1..Len(records) : i < j => StrLess(records[i].checkpoint, records[j].checkpoint)

-----------------------------------------------------------------------------
(* C1 *)

\* C1: for every trial folder with a metrics log and N checkpoint folders,
\* from_path returns a Result whose best_checkpoints has exactly N records, one
\* per checkpoint folder, in ascending name order, with an empty dict for a folder
\* that no row of the history names.
C1_OneRecordPerCheckpoint ==
    (restored # NotCalled /\ restored.folder.exists /\ HasLog(restored.folder)) =>
        /\ Returned(restored)
        /\ LET records == Records(ResultOf(restored))
           IN  /\ Len(records) = Cardinality(CheckpointFolders(restored.folder))
               /\ {records[i].checkpoint : i \in 1..Len(records)}
                      = CheckpointFolders(restored.folder)
               /\ Ascending(records)
               /\ \A i \in 1..Len(records) :
                      Matching(restored.folder, records[i].checkpoint) = {}
                          => records[i].metrics = <<>>

-----------------------------------------------------------------------------
(* C2 *)

\* C2: a correlation miss never aborts the restore: for every trial folder with a
\* metrics log and at least one checkpoint folder, from_path returns a Result, and
\* every checkpoint folder that no row of the history names (also when the history
\* is empty or has no correlation key at all) is paired with an empty dict.
C2_MissNeverAborts ==
    (/\ restored # NotCalled
     /\ restored.folder.exists
     /\ HasLog(restored.folder)
     /\ CheckpointFolders(restored.folder) # {}) =>
        /\ Returned(restored)
        /\ \A i \in 1..Len(Records(ResultOf(restored))) :
              LET record == Records(ResultOf(restored))[i]
              IN  Matching(restored.folder, record.checkpoint) = {} => record.metrics = <<>>

-----------------------------------------------------------------------------
(* C3 *)

\* C3: a checkpoint folder that one or more rows of the history name is paired
\* with the last of those rows in history order, whole and unmerged.
C3_LastMatchingSnapshot ==
    Returned(restored) =>
        \A i \in 1..Len(Records(ResultOf(restored))) :
            LET record == Records(ResultOf(restored))[i]
                hits == Matching(restored.folder, record.checkpoint)
            IN  hits # {} =>
                    record.metrics
                        = History(restored.folder).rows[CHOOSE h \in hits : \A g \in hits : g <= h]

\* a checkpoint named by two rows that differ, paired by a returned Result
C3_Witness ==
    /\ Returned(restored)
    /\ "metric_a" \in History(restored.folder).columns
    /\ \E i \in 1..Len(Records(ResultOf(restored))) :
          LET hits == Matching(restored.folder, Records(ResultOf(restored))[i].checkpoint)
              rows == History(restored.folder).rows
          IN  \E g, h \in hits :
                /\ g < h
                /\ rows[g]["metric_a"] # rows[h]["metric_a"]
                /\ rows[g]["metric_a"].t = "num"
                /\ rows[h]["metric_a"].t = "num"

-----------------------------------------------------------------------------
(* C4 *)

\* a get_best_checkpoint call was made on the restored Result
Selected == sel.out.raised # "not called" /\ Returned(restored)

\* the records of the Result whose dict has the key
Containing(result, metric) ==
    SelectSeq(Records(result), LAMBDA record : metric \in DOMAIN record.metrics)

\* positions of the records that hold the extremal value of the metric: the
\* largest (max) or smallest (min) number; where no record holds a number, no
\* value is ordered before another and every record ties
Extremal(records, metric, mode) ==
    LET numbers == {i \in 1..Len(records) : records[i].metrics[metric].t = "num"}
        Value(i) == records[i].metrics[metric].n
    IN  IF numbers = {} THEN 1..Len(records)
        ELSE {i \in numbers :
                \A j \in numbers :
                    IF mode = "max" THEN Value(i) >= Value(j) ELSE Value(i) <= Value(j)}

\* C4: on a Result with records and a mode in {min, max}, get_best_checkpoint
\* looks at exactly the records whose dict has the metric and returns the one with
\* the largest (max) or smallest (min) value of it, the first such record in
\* ascending checkpoint order when several share that value.
C4_ReturnsFirstExtremal ==
    (/\ Selected
     /\ Records(ResultOf(restored)) # <<>>
     /\ sel.mode \in {"max", "min"}
     /\ Containing(ResultOf(restored), sel.metric) # <<>>) =>
        LET records == Containing(ResultOf(restored), sel.metric)
            best == Extremal(records, sel.metric, sel.mode)
        IN  sel.out.checkpoint
                = <<records[CHOOSE i \in best : \A j \in best : i <= j].checkpoint>>

-----------------------------------------------------------------------------
(* C5 *)

\* C5 as stated: get_best_checkpoint raises the unsupported-mode ValueError for
\* every mode outside {min, max}, whatever the Result and the metric, also on a
\* Result without checkpoints.
C5_InvalidModeAlways ==
    (Selected /\ sel.mode \notin {"max", "min"}) =>
        sel.out = Failed("ValueError", "Unsupported mode")

\* C5 (amended): on a Result with at least one checkpoint record,
\* get_best_checkpoint raises the unsupported-mode ValueError for every mode
\* outside {min, max} and every metric, known or not; on a Result without
\* checkpoints it raises the no-checkpoint RuntimeError instead.
C5_InvalidModeWithCheckpoints ==
    (Selected /\ sel.mode \notin {"max", "min"}) =>
        IF Records(ResultOf(restored)) # <<>>
        THEN sel.out = Failed("ValueError", "Unsupported mode")
        ELSE sel.out = Failed("RuntimeError", "No checkpoint exists in the trial directory!")

\* an unsupported mode with a metric that no record has, on a Result with records
C5_Witness ==
    /\ Selected
    /\ sel.mode = "avg"
    /\ Records(ResultOf(restored)) # <<>>
    /\ Containing(ResultOf(restored), sel.metric) = <<>>
    /\ sel.out.raised = "ValueError"

-----------------------------------------------------------------------------
(* C6 *)

\* in every state, a call with a valid mode on a Result with records has raised
\* the invalid-metric RuntimeError, and returned no checkpoint, exactly when no
\* record of the Result has the metric
C6_UnknownMetricExactly ==
    (Selected /\ Records(ResultOf(restored)) # <<>> /\ sel.mode \in {"max", "min"}) =>
        /\ (sel.out = Failed("RuntimeError", "Invalid metric name"))
              <=> (Containing(ResultOf(restored), sel.metric) = <<>>)
        /\ (Containing(ResultOf(restored), sel.metric) # <<>>)
              => (sel.out.raised = "none" /\ Len(sel.out.checkpoint) = 1)

\* a step that ends in a call that raised leaves the Result as it was
C6_FailureKeepsResult ==
    (sel' # sel /\ sel'.out.raised \notin {"none", "not called"}) => restored' = restored

-----------------------------------------------------------------------------
(* C7 *)

\* the accesses of a call that come after the log checks: the directory listing
\* and every access to the error file
LateAccesses(call) ==
    {i \in 1..Len(call.out.ops) :
        \/ call.out.ops[i].op = "get_file_info"
        \/ call.out.ops[i].name = EXPR_ERROR_PICKLE_FILE}

\* C7: from_path raises the trial-folder RuntimeError when the folder does not
\* exist, and the missing-log RuntimeError when the folder exists but holds
\* neither result.json nor progress.csv; in both cases no Result is returned, and
\* the call has listed no directory and touched no error file.
C7_AllOrNothing ==
    restored # NotCalled =>
        /\ ~restored.folder.exists =>
              /\ restored.out.raised = "RuntimeError"
              /\ restored.out.msg = "Trial folder doesn't exist!"
        /\ (restored.folder.exists /\ ~HasLog(restored.folder)) =>
              /\ restored.out.raised = "RuntimeError"
              /\ restored.out.msg
                    = "Neither result.json nor progress.csv exists in the trial folder!"
        /\ (~restored.folder.exists \/ ~HasLog(restored.folder)) =>
              /\ ~Returned(restored)
              /\ LateAccesses(restored) = {}

\* a restore of a folder that lost its only log, with checkpoints and an error
\* file in it
C7_Witness ==
    /\ restored # NotCalled
    /\ restored.folder.exists
    /\ ~HasLog(restored.folder)
    /\ CheckpointFolders(restored.folder) # {}
    /\ EXPR_ERROR_PICKLE_FILE \in restored.folder.files
    /\ ~Returned(restored)

-----------------------------------------------------------------------------
(* C8 *)

\* result.json and progress.csv encode the same rows: as many rows, the header
\* names each key in use once, and each cell is the text of the value the record
\* has under the column's key, empty where the record has none
SameRows(lines, table) ==
    /\ Len(table.rows) = Len(lines)
    /\ {table.header[j] : j \in 1..Len(table.header)} = KeysOf(lines)
    /\ Cardinality(KeysOf(lines)) = Len(table.header)
    /\ \A i \in 1..Len(lines) : \A j \in 1..Len(table.header) :
          table.rows[i][j]
              = IF table.header[j] \in DOMAIN lines[i]
                THEN CellText(lines[i][table.header[j]]) ELSE <<>>

\* `kept` was restored with both logs in the folder, and `restored` from the same
\* folder after result.json was deleted
RestoredBeforeAndAfter ==
    /\ kept # NotCalled
    /\ restored # NotCalled
    /\ EXPR_RESULT_FILE \in kept.folder.files
    /\ EXPR_PROGRESS_FILE \in kept.folder.files
    /\ restored.folder
          = [kept.folder EXCEPT !.files = @ \ {EXPR_RESULT_FILE}, !.json = <<>>]

\* the accesses of a call to the named file
AccessesTo(call, name) == {i \in 1..Len(call.out.ops) : call.out.ops[i].name = name}

-----------------------------------------------------------------------------
(* C9 *)

\* the folder without its error file
WithoutError(f) == [f EXCEPT !.files = @ \ {EXPR_ERROR_PICKLE_FILE}, !.pkl = NoPickle]

\* C9: a returned Result has an error exactly when the folder holds error.pkl,
\* and then it is the object pickled in that file; without the file the restore
\* ends as it would with the file there, and a returned Result has error None.
C9_ErrorIffArtifact ==
    /\ Returned(restored) =>
          IF EXPR_ERROR_PICKLE_FILE \in restored.folder.files
          THEN ResultOf(restored).error = Some(restored.folder.pkl.pickled)
          ELSE ResultOf(restored).error = None
    /\ restored # NotCalled =>
          restored.out.raised = from_path(WithoutError(restored.folder)).raised

\* a returned Result that carries the pickled RuntimeError
C9_Witness ==
    /\ Returned(restored)
    /\ EXPR_ERROR_PICKLE_FILE \in restored.folder.files
    /\ ~ResultOf(restored).error.none
    /\ ResultOf(restored).error.value.type = "RuntimeError"

-----------------------------------------------------------------------------
(* C10 *)

\* the width of the index in checkpoint_<index>
IndexWidth == 6

\* the name follows the convention: the prefix, then IndexWidth digits
Conventional(name) ==
    /\ startswith(name, CheckpointPrefix)
    /\ Len(name) = Len(CheckpointPrefix) + IndexWidth
    /\ IsNumber(SubSeq(name, Len(CheckpointPrefix) + 1, Len(name)))

\* the names of the checkpoints of a returned Result
Scanned(call) ==
    {Records(ResultOf(call))[i].checkpoint : i \in 1..Len(Records(ResultOf(call)))}

\* C10 as stated: the scan returns exactly the subdirectories named
\* checkpoint_<fixed-width numeric index>, in lexicographic order; a plain file,
\* and a subdirectory with the prefix but no such index, are never returned.
C10_ScanByConvention ==
    Returned(restored) =>
        /\ Scanned(restored) = {d \in restored.folder.dirs : Conventional(d)}
        /\ Ascending(Records(ResultOf(restored)))

\* C10 (amended): the scan returns exactly the immediate subdirectories whose
\* name starts with "checkpoint_", whatever follows the prefix, in lexicographic
\* order; a plain file, and a subdirectory without the prefix, are never
\* returned.
C10_ScanByPrefix ==
    Returned(restored) =>
        /\ Scanned(restored) = {d \in restored.folder.dirs : startswith(d, CheckpointPrefix)}
        /\ Len(Records(ResultOf(restored))) = Cardinality(Scanned(restored))
        /\ Ascending(Records(ResultOf(restored)))
        /\ Scanned(restored) \cap restored.folder.files = {}

\* a scan of a folder with a checkpoint, the unindexed checkpoint_tmp folder, a
\* folder without the prefix and a plain file named like a checkpoint
C10_Witness ==
    /\ Returned(restored)
    /\ TmpDir \in Scanned(restored)
    /\ CheckpointName(0) \in Scanned(restored)
    /\ LogsDir \in restored.folder.dirs
    /\ StrayFile \in restored.folder.files

====
